---------------------------- MODULE Spec2Model ----------------------------
(***************************************************************************)
(* A model of inventorize: the inventory engine (build / check / update),  *)
(* the recursive directory traversal and the multi-digest hasher it drives.*)
(*                                                                         *)
(* A path is a sequence of names and a name is a sequence of characters,   *)
(* so that is_hidden can look at the first character of the final          *)
(* component, as the code does.                                            *)
(***************************************************************************)
EXTENDS Integers, Sequences, FiniteSets, TLC

VARIABLES
    fs,          \* the repository: file path -> contents, or Absent
    inventory,   \* the Inventory value the engine works on, or NoInventory
    last,        \* the last operation: its name, its flag and its outcome
    report,      \* the Report returned by the last check
    before,      \* the Inventory as it was when the last operation started
    changes,     \* number of changes made to the repository since the build
    checking,    \* a check in progress: its snapshot, its mode, its failing call
    traversal,   \* a DirectoryIterator in use and the items it has yielded
    hashing,     \* a Hasher in use and the outcome of its last compute
    codec,       \* the last input of the hex codec and what it returned
    inventory_file,  \* the inventory file: the document it holds, if it exists
    process      \* the last run of the program: its command and its exit code

\* The variables of the inventory engine and those of the components used
\* on their own.
engine == <<fs, inventory, last, report, before, changes>>
components == <<checking, traversal, hashing, codec>>
\* The variables of the command-line program around the engine.
cli == <<inventory_file, process>>
vars == <<fs, inventory, last, report, before, changes,
          checking, traversal, hashing, codec, inventory_file, process>>

----------------------------------------------------------------------------
(* Bounds of the model.                                                    *)

\* Largest byte value a file holds.
MaxByte == 1
\* Largest file length, in bytes.
MaxLen == 1
\* Largest number of repository changes after the inventory was built.
MaxChanges == 2
\* The same, in the specification with failing filesystem calls.
MaxChangesIo == 1
\* Size of the read buffer of Hasher::compute; 128 KiB in the code, scaled
\* so that a stream of MaxStream bytes is read in more than one chunk.
CHUNK_SIZE == 2
\* Largest length, in bytes, of a stream given to a hasher used on its own.
MaxStream == 3
\* Largest number of compute calls made on one hasher.
MaxCalls == 2
\* Largest number of runs of the program.
MaxRuns == 2
\* Largest length, in bytes, of a byte sequence given to the hex encoder.
MaxHexBytes == 2
\* Largest length, in characters, of a string given to the hex decoder.
MaxHexChars == 4

----------------------------------------------------------------------------
(* The repository tree.                                                    *)

NameB == <<"b">>
NameC == <<"c">>
NameD == <<"d">>
NameE == <<"e">>
NameF == <<"f">>
NameDotH == <<".", "h">>
NameDotG == <<".", "g">>

\* Absolute path of the repository root.
Root == << <<"r">> >>

\* Root-relative paths of the directories below the root; they always exist.
SubDirs == { <<NameD>>, <<NameD, NameE>>, <<NameDotG>> }
Dirs == { <<>> } \cup SubDirs

\* Root-relative paths at which a regular file may exist.
\* A hidden file, a file in a plain directory and a plain file in a hidden
\* directory.
FilePaths == { <<NameDotH>>, <<NameD, NameB>>, <<NameDotG, NameC>> }

\* The paths of the deeper trees the traversal is run on by itself: also a
\* file in a nested directory and a file listed after that directory.
DeepPaths == FilePaths \cup { <<NameD, NameE, NameC>>, <<NameD, NameF>> }

Bytes == 0..MaxByte
Contents == UNION { [1..n -> Bytes] : n \in 0..MaxLen }
\* What the repository holds at a file path.
Absent == [exists |-> FALSE, data |-> <<>>]
File(c) == [exists |-> TRUE, data |-> c]

\* The order in which a directory stream lists names.
NameOrder == <<NameB, NameC, NameD, NameE, NameF, NameDotG, NameDotH>>

Parent(p) == SubSeq(p, 1, Len(p) - 1)

\* std::path::Path::strip_prefix: the path without the prefix, or an error.
strip_prefix(p, base) ==
    IF Len(p) >= Len(base) /\ SubSeq(p, 1, Len(base)) = base
    THEN [ok |-> TRUE, path |-> SubSeq(p, Len(base) + 1, Len(p))]
    ELSE [ok |-> FALSE, path |-> <<>>]

\* Path::is_dir on an absolute path.
is_dir(f, abs) ==
    LET rel == strip_prefix(abs, Root)
    IN  rel.ok /\ rel.path \in Dirs

\* util::is_hidden as it would be if it looked at the start of the whole
\* path and not at the file name.
is_hidden_whole_path(path) ==
    IF Len(path) = 0 THEN FALSE
    ELSE Len(path[1]) > 0 /\ path[1][1] = "."

\* util::is_hidden: the final component begins with a dot.
is_hidden(path) ==
    IF Len(path) = 0 THEN FALSE
    ELSE LET file_name == path[Len(path)]
         IN  Len(file_name) > 0 /\ file_name[1] = "."

----------------------------------------------------------------------------
(* I/O faults: the one filesystem call, if any, that fails during an       *)
(* operation. An operation of the engine ends at the first error item, so  *)
(* that what a directory stream holds after one makes no difference to it. *)

NoFault == [kind |-> "none", path |-> <<>>]
Faults ==
    {NoFault}
    \cup [kind : {"read_dir", "entry"}, path : Dirs]
    \cup [kind : {"metadata", "open", "read"}, path : FilePaths]

\* let x = v; body(x): the value v is computed once and the body applied to it.
Let(v, body(_)) == CHOOSE y \in { body(x) : x \in {v} } : TRUE

\* Result values: Ok(v) or an I/O error.
Ok(v) == [ok |-> TRUE, value |-> v]
IoError == [ok |-> FALSE, value |-> <<>>]

----------------------------------------------------------------------------
(* iterdir.rs: the recursive directory iterator.                           *)

\* An item of a directory stream or of the traversal.
OkItem(p) == [ok |-> TRUE, path |-> p]
ErrItem == [ok |-> FALSE, path |-> <<>>]
None == [some |-> FALSE]
Some(x) == [some |-> TRUE, item |-> x]

\* Whether a root-relative path names an existing directory entry.
Exists(f, rel) ==
    \/ rel \in SubDirs
    \/ rel \in DOMAIN f /\ f[rel].exists

\* std::fs::read_dir: the stream of the entries of a directory, or an error.
\* A failing entry read is an error item in the stream; the stream then goes
\* on with the entries ("entry") or is at its end ("entry_end"), as the
\* platform has it.
read_dir(f, abs, fault) ==
    LET rel == strip_prefix(abs, Root).path
        listed == SelectSeq(NameOrder, LAMBDA n : Exists(f, rel \o <<n>>))
        entries == [i \in 1..Len(listed) |-> OkItem(abs \o <<listed[i]>>)]
    IN  IF fault = [kind |-> "read_dir", path |-> rel] THEN IoError
        ELSE IF fault = [kind |-> "entry", path |-> rel] THEN Ok(<<ErrItem>> \o entries)
        ELSE IF fault = [kind |-> "entry_end", path |-> rel] THEN Ok(<<ErrItem>>)
        ELSE Ok(entries)

\* Iterator::skip_while on a directory stream: drops the leading hidden
\* entries; an error item is never skipped.
RECURSIVE skip_while(_, _)
skip_while(stream, skip_hidden) ==
    IF stream = <<>> THEN stream
    ELSE IF Head(stream).ok /\ skip_hidden /\ is_hidden(Head(stream).path)
         THEN skip_while(Tail(stream), skip_hidden)
         ELSE stream

\* The iterator: skip_hidden, root and the stack of directory streams.
\* DirectoryIterator::new opens the root directory.
DirectoryIterator_new(f, root, skip_hidden, fault) ==
    LET s == read_dir(f, root, fault)
    IN  IF ~s.ok THEN IoError
        ELSE Ok([skip_hidden |-> skip_hidden, root |-> root, stack |-> <<s.value>>])

\* The stack with its top stream replaced.
SetTop(stack, s) == [stack EXCEPT ![Len(stack)] = s]

\* DirectoryIterator::step as it would be if the stream of a subdirectory
\* were put below the streams already open and not on top of them.
RECURSIVE step_deferring(_, _, _)
step_deferring(self, f, fault) ==
    Let(skip_while(self.stack[Len(self.stack)], self.skip_hidden), LAMBDA iterator :
        IF iterator = <<>>
        THEN [result |-> None, self |-> [self EXCEPT !.stack = SetTop(self.stack, <<>>)]]
        ELSE Let([self EXCEPT !.stack = SetTop(self.stack, Tail(iterator))], LAMBDA rest :
                 Let(Head(iterator), LAMBDA dir_result :
                     IF dir_result.ok
                     THEN IF is_dir(f, dir_result.path)
                          THEN Let(read_dir(f, dir_result.path, fault), LAMBDA iter :
                                   IF ~iter.ok
                                   THEN [result |-> Some(ErrItem), self |-> rest]
                                   ELSE step_deferring(
                                            [rest EXCEPT
                                                !.stack = <<iter.value>> \o rest.stack],
                                            f, fault))
                          ELSE [result |-> Some(dir_result), self |-> rest]
                     ELSE [result |-> Some(ErrItem), self |-> rest])))

\* DirectoryIterator::step as it would be if a subdirectory that cannot be
\* opened were passed over like an empty one, and a failed entry read like
\* a hidden entry.
RECURSIVE step_dropping_errors(_, _, _)
step_dropping_errors(self, f, fault) ==
    Let(skip_while(self.stack[Len(self.stack)], self.skip_hidden), LAMBDA iterator :
        IF iterator = <<>>
        THEN [result |-> None, self |-> [self EXCEPT !.stack = SetTop(self.stack, <<>>)]]
        ELSE Let([self EXCEPT !.stack = SetTop(self.stack, Tail(iterator))], LAMBDA rest :
                 Let(Head(iterator), LAMBDA dir_result :
                     IF dir_result.ok
                     THEN IF is_dir(f, dir_result.path)
                          THEN Let(read_dir(f, dir_result.path, fault), LAMBDA iter :
                                   IF ~iter.ok
                                   THEN step_dropping_errors(rest, f, fault)
                                   ELSE step_dropping_errors(
                                            [rest EXCEPT
                                                !.stack = Append(rest.stack, iter.value)],
                                            f, fault))
                          ELSE [result |-> Some(dir_result), self |-> rest]
                     ELSE step_dropping_errors(rest, f, fault))))

\* DirectoryIterator::step: the next entry of the top stream; a directory is
\* descended into, a file is returned. None at the end of the top stream.
RECURSIVE step(_, _, _)
step(self, f, fault) ==
    Let(skip_while(self.stack[Len(self.stack)], self.skip_hidden), LAMBDA iterator :
        IF iterator = <<>>
        THEN [result |-> None, self |-> [self EXCEPT !.stack = SetTop(self.stack, <<>>)]]
        ELSE Let([self EXCEPT !.stack = SetTop(self.stack, Tail(iterator))], LAMBDA rest :
                 Let(Head(iterator), LAMBDA dir_result :
                     IF dir_result.ok
                     THEN IF is_dir(f, dir_result.path)
                          THEN Let(read_dir(f, dir_result.path, fault), LAMBDA iter :
                                   IF ~iter.ok
                                   THEN [result |-> Some(ErrItem), self |-> rest]
                                   ELSE step([rest EXCEPT
                                                 !.stack = Append(rest.stack, iter.value)],
                                             f, fault))
                          ELSE [result |-> Some(dir_result), self |-> rest]
                     ELSE [result |-> Some(ErrItem), self |-> rest])))

\* Iterator::next of DirectoryIterator as it would be if it returned None at
\* the end of the top stream, without going on with the streams below it.
DirectoryIterator_next_top_only(self, f, fault) ==
    IF Len(self.stack) > 0
    THEN Let(step(self, f, fault), LAMBDA r :
             IF r.result.some THEN r ELSE [result |-> None, self |-> r.self])
    ELSE [result |-> None, self |-> self]

\* Iterator::next of DirectoryIterator: steps, popping every exhausted
\* stream, until an item is found or the stack is empty.
RECURSIVE DirectoryIterator_next(_, _, _)
DirectoryIterator_next(self, f, fault) ==
    IF Len(self.stack) > 0
    THEN Let(step(self, f, fault), LAMBDA r :
             IF r.result.some THEN r
             ELSE DirectoryIterator_next(
                      [r.self EXCEPT !.stack = SubSeq(r.self.stack, 1, Len(r.self.stack) - 1)],
                      f, fault))
    ELSE [result |-> None, self |-> self]

\* RelativePathIterator::next over DirectoryIterator::paths: the path of the
\* next entry with the root prefix stripped.
relative_paths_next(self, f, fault) ==
    Let(DirectoryIterator_next(self, f, fault), LAMBDA r :
        IF ~r.result.some THEN r
        ELSE IF r.result.item.ok
             THEN Let(strip_prefix(r.result.item.path, self.root), LAMBDA p :
                      [result |-> Some(IF p.ok THEN OkItem(p.path) ELSE ErrItem),
                       self |-> r.self])
             ELSE r)

\* The whole sequence of items the relative-path iterator yields.
RECURSIVE relative_paths(_, _, _)
relative_paths(self, f, fault) ==
    Let(relative_paths_next(self, f, fault), LAMBDA r :
        IF r.result.some
        THEN <<r.result.item>> \o relative_paths(r.self, f, fault)
        ELSE <<>>)

\* Iterator::collect into Result<HashSet<PathBuf>, _>: the set of the paths,
\* or the first error.
collect(items) ==
    IF \E i \in 1..Len(items) : ~items[i].ok THEN IoError
    ELSE Ok({ items[i].path : i \in 1..Len(items) })

----------------------------------------------------------------------------
(* util.rs: the hex codec. A string is the sequence of the bytes of its    *)
(* UTF-8 encoding, a character code being a number in 0..255.              *)

\* util::nibble_to_char: '0' + n up to 9, 'a' + n - 10 above.
nibble_to_char(n) == IF n <= 9 THEN (48 + n) % 256 ELSE (97 + n - 10) % 256

\* util::char_to_nibble as it would be without the arm of the upper-case
\* letters.
char_to_nibble_lower_only(c) ==
    IF c \in 48..57 THEN Some(c - 48)
    ELSE IF c \in 97..102 THEN Some((10 + c - 97) % 256)
    ELSE None

\* util::char_to_nibble: the value of a hex digit of either case, or None.
char_to_nibble(c) ==
    IF c \in 48..57 THEN Some(c - 48)
    ELSE IF c \in 97..102 THEN Some((10 + c - 97) % 256)
    ELSE IF c \in 65..70 THEN Some((10 + c - 65) % 256)
    ELSE None

\* util::bytes_to_hex_string as it would be if it wrote the low nibble
\* first.
bytes_to_hex_string_low_first(b) ==
    [i \in 1..(Len(b) * 2) |->
        IF i % 2 = 1 THEN nibble_to_char(b[(i + 1) \div 2] % 16)
                     ELSE nibble_to_char(b[(i + 1) \div 2] \div 16)]

\* util::bytes_to_hex_string: for every byte the character of x >> 4, then
\* that of x & 0x0f; the string has twice the length of the input.
bytes_to_hex_string(b) ==
    [i \in 1..(Len(b) * 2) |->
        IF i % 2 = 1 THEN nibble_to_char(b[(i + 1) \div 2] \div 16)
                     ELSE nibble_to_char(b[(i + 1) \div 2] % 16)]

\* The loop of util::hex_string_to_bytes over the bytes of the string that
\* are left: a high and a low character are read and decoded in this order,
\* and the first that is no hex digit ends the call with None.
RECURSIVE decode_pairs(_, _)
decode_pairs(it, ret) ==
    IF it = <<>> THEN Some(ret)
    ELSE Let(char_to_nibble(it[1]), LAMBDA hi :
             IF ~hi.some THEN None
             ELSE Let(char_to_nibble(it[2]), LAMBDA lo :
                      IF ~lo.some THEN None
                      ELSE decode_pairs(SubSeq(it, 3, Len(it)),
                                        Append(ret, ((hi.item * 16) % 256) + lo.item))))

\* util::hex_string_to_bytes: None for a string of odd length in bytes, else
\* the bytes of the pairs of hex digits, or None.
hex_string_to_bytes(s) ==
    IF Len(s) % 2 # 0 THEN None ELSE decode_pairs(s, <<>>)

----------------------------------------------------------------------------
(* hash.rs: hash algorithms, digests and the multi-digest hasher.          *)

Md5 == "md5"
Sha1 == "sha1"
\* enum HashAlgorithm, in declaration order, which is its derived Ord.
HashAlgorithm == <<Md5, Sha1>>
HashAlgorithms == { HashAlgorithm[i] : i \in 1..Len(HashAlgorithm) }

Min(a, b) == IF a < b THEN a ELSE b

\* BTreeSet<HashAlgorithm>::iter: the members of a set in ascending order.
BTreeSet_iter(set) == SelectSeq(HashAlgorithm, LAMBDA a : a \in set)

\* The digests stand for the md5 and sha1 crates: a running state that
\* absorbs the bytes in order, and a fixed-length output (one byte for Md5,
\* two for Sha1) that differs for different inputs within the bounds.
Digest_new(a) == IF a = Md5 THEN 0 ELSE 1

\* DynDigest::update: absorb a chunk of data into the state.
RECURSIVE Digest_update(_, _, _)
Digest_update(a, d, data) ==
    IF data = <<>> THEN d
    ELSE Digest_update(a,
                       IF a = Md5 THEN (d * 5 + Head(data) + 1) % 256
                                  ELSE (d * 7 + Head(data) + 2) % 65536,
                       Tail(data))

\* The output of a digest state.
Digest_output(a, d) == IF a = Md5 THEN <<d>> ELSE <<d \div 256, d % 256>>

\* DynDigest::finalize_reset as it would be if it left the state as it is.
Digest_finalize_stale(a, d) == [value |-> Digest_output(a, d), digest |-> d]

\* DynDigest::finalize_reset: the output, and the state reset to the initial one.
Digest_finalize_reset(a, d) == [value |-> Digest_output(a, d), digest |-> Digest_new(a)]

\* Hasher::new as it would be if it took the first algorithm only.
Hasher_new_first_only(algorithms) ==
    [digests |-> [i \in 1..Min(1, Len(algorithms)) |->
                     [alg |-> algorithms[i], digest |-> Digest_new(algorithms[i])]]]

\* Hasher::new: one fresh digest per algorithm the iterator yields.
Hasher_new(algorithms) ==
    [digests |-> [i \in 1..Len(algorithms) |->
                     [alg |-> algorithms[i], digest |-> Digest_new(algorithms[i])]]]

\* Hasher::update as it would be if only the first digest were fed.
Hasher_update_first(self, data) ==
    [digests |-> [i \in 1..Len(self.digests) |->
                     [alg |-> self.digests[i].alg,
                      digest |-> IF i = 1
                                 THEN Digest_update(self.digests[i].alg,
                                                    self.digests[i].digest, data)
                                 ELSE self.digests[i].digest]]]

\* Hasher::update: feeds a chunk to every digest.
Hasher_update(self, data) ==
    [digests |-> [i \in 1..Len(self.digests) |->
                     [alg |-> self.digests[i].alg,
                      digest |-> Digest_update(self.digests[i].alg, self.digests[i].digest, data)]]]

\* Hasher::finalize_reset as it would be with finalize in place of
\* finalize_reset: the digests keep the bytes they absorbed.
Hasher_finalize_keep(self) ==
    [hashes |-> [i \in 1..Len(self.digests) |->
                    <<self.digests[i].alg,
                      Digest_output(self.digests[i].alg, self.digests[i].digest)>>],
     self |-> self]

\* Hasher::finalize_reset: the (algorithm, value) pairs in the order of the
\* digests, and the hasher with every digest reset.
Hasher_finalize_reset(self) ==
    LET fr(i) == Digest_finalize_reset(self.digests[i].alg, self.digests[i].digest)
    IN  [hashes |-> [i \in 1..Len(self.digests) |-> <<self.digests[i].alg, fr(i).value>>],
         self |-> [digests |-> [i \in 1..Len(self.digests) |->
                                   [alg |-> self.digests[i].alg, digest |-> fr(i).digest]]]]

\* A reader: the bytes it still holds, the number of read calls made so far,
\* the read call that fails (0: none) and the most bytes one read returns.
ShortReader(data, fail_at, short) ==
    [data |-> data, reads |-> 0, fail_at |-> fail_at, short |-> short]

\* A reader that fills the buffer whenever it holds enough bytes.
Reader(data, fail_at) == ShortReader(data, fail_at, CHUNK_SIZE)

\* Hasher::compute: reads the source in chunks of at most CHUNK_SIZE bytes
\* into every digest until a read returns 0 bytes, then finalizes and resets.
\* A failed read returns the error and leaves the digests as they are.
RECURSIVE compute(_, _)
compute(self, source) ==
    IF source.reads + 1 = source.fail_at
    THEN [result |-> IoError, self |-> self]
    ELSE Let(Min(Min(CHUNK_SIZE, source.short), Len(source.data)), LAMBDA nread :
             IF nread > 0
             THEN Let(Hasher_update(self, SubSeq(source.data, 1, nread)), LAMBDA updated :
                      compute(updated,
                              [source EXCEPT
                                  !.data = SubSeq(source.data, nread + 1, Len(source.data)),
                                  !.reads = @ + 1]))
             ELSE Let(Hasher_finalize_reset(self), LAMBDA fr :
                      [result |-> Ok(fr.hashes), self |-> fr.self]))

----------------------------------------------------------------------------
(* inventory.rs: configuration, records, report.                           *)

\* CARGO_PKG_VERSION
Version == "v"

\* Configuration::default followed by the setters the caller applies.
Configuration(skip_hidden, algorithms) ==
    [version |-> Version, skip_hidden |-> skip_hidden, hash_algorithms |-> algorithms]

\* The configurations build is called with: the algorithm set is not empty.
Configurations ==
    { Configuration(s, a) : s \in BOOLEAN, a \in (SUBSET HashAlgorithms) \ {{}} }

\* Vec<(K, V)> collected into a BTreeMap: a later pair replaces an earlier one.
BTreeMap_collect(pairs) ==
    [k \in { pairs[i][1] : i \in 1..Len(pairs) } |->
        LET i == CHOOSE i \in 1..Len(pairs) :
                     /\ pairs[i][1] = k
                     /\ \A j \in (i + 1)..Len(pairs) : pairs[j][1] # k
        IN  pairs[i][2]]

BTreeMap_insert(map, k, v) ==
    [x \in DOMAIN map \cup {k} |-> IF x = k THEN v ELSE map[x]]

BTreeMap_remove(map, k) == [x \in DOMAIN map \ {k} |-> map[x]]

EmptyMap == [x \in {} |-> {}]

\* Record::new as it would be if the size were left at its default.
Record_new_unsized(size, hashes) == [hashes |-> BTreeMap_collect(hashes), size |-> 0]

\* Record::new
Record_new(size, hashes) == [hashes |-> BTreeMap_collect(hashes), size |-> size]

MissingFromRepository == "MissingFromRepository"
MissingFromInventory == "MissingFromInventory"
SizeMismatch == "SizeMismatch"
HashMismatch == "HashMismatch"
FailureKind == {MissingFromRepository, MissingFromInventory, SizeMismatch, HashMismatch}

\* Report::new: no failure kind has an entry.
Report_new == [contents |-> EmptyMap]

\* Report::is_empty
Report_is_empty(self) == DOMAIN self.contents = {}

\* Report::by_failure: the paths under a failure kind, none if it has no entry.
ByFailure(rep, kind) == IF kind \in DOMAIN rep.contents THEN rep.contents[kind] ELSE {}

\* Report::add_failure as it would be if it replaced the set of the kind.
add_failure_replacing(self, file, kind) ==
    [contents |->
        [k \in DOMAIN self.contents \cup {kind} |->
            IF k = kind THEN {file} ELSE self.contents[k]]]

\* Report::add_failure: the file joins the set of the kind, created if needed.
add_failure(self, file, kind) ==
    [contents |->
        [k \in DOMAIN self.contents \cup {kind} |->
            IF k = kind
            THEN (IF k \in DOMAIN self.contents THEN self.contents[k] ELSE {}) \cup {file}
            ELSE self.contents[k]]]

\* for_each(|p| report.add_failure(p, kind)) over a set of paths.
RECURSIVE add_failures(_, _, _)
add_failures(self, files, kind) ==
    IF files = {} THEN self
    ELSE Let(CHOOSE p \in files : TRUE, LAMBDA p :
             Let(add_failure(self, p, kind), LAMBDA added :
                 add_failures(added, files \ {p}, kind)))

\* Inventory::new
Inventory_new(configuration) == [configuration |-> configuration, records |-> EmptyMap]
NoInventory == [configuration |-> Configuration(FALSE, {}), records |-> EmptyMap, none |-> TRUE]

\* The orders in which a HashSet may iterate over its members.
RECURSIVE HashSet_orders(_)
HashSet_orders(set) ==
    IF set = {} THEN { <<>> }
    ELSE UNION { { <<x>> \o s : s \in HashSet_orders(set \ {x}) } : x \in set }

\* One of these orders, for the iterations whose result does not depend on it.
RECURSIVE HashSet_iter(_)
HashSet_iter(set) ==
    IF set = {} THEN <<>>
    ELSE Let(CHOOSE x \in set : TRUE, LAMBDA x : <<x>> \o HashSet_iter(set \ {x}))

\* Path::push of a relative path onto the repository path.
push(repository, rel_path) == repository \o rel_path

\* The file an absolute path names.
FileAt(f, abs_path) ==
    LET rel == strip_prefix(abs_path, Root)
    IN  IF rel.ok /\ rel.path \in DOMAIN f THEN f[rel.path] ELSE Absent

\* fs::metadata: the length of the file, or an error.
metadata(f, abs_path, fault) ==
    Let(FileAt(f, abs_path), LAMBDA file :
        IF fault = [kind |-> "metadata", path |-> strip_prefix(abs_path, Root).path]
           \/ ~file.exists
        THEN IoError
        ELSE Ok(Len(file.data)))

\* OpenOptions::open for reading: a reader over the bytes of the file, or an
\* error. A read fault fails the read that follows the first chunk.
open(f, abs_path, fault) ==
    Let(FileAt(f, abs_path), LAMBDA file :
        IF fault = [kind |-> "open", path |-> strip_prefix(abs_path, Root).path]
           \/ ~file.exists
        THEN IoError
        ELSE Ok(Reader(file.data,
                       IF fault = [kind |-> "read", path |-> strip_prefix(abs_path, Root).path]
                       THEN (IF file.data = <<>> THEN 1 ELSE 2)
                       ELSE 0)))

\* Inventory::add_file: the record of the file (size from the metadata,
\* hashes from the hasher) is inserted under its relative path.
add_file(self, f, repository, rel_path, hasher, fault) ==
    Let(push(repository, rel_path), LAMBDA abs_path :
    Let(metadata(f, abs_path, fault), LAMBDA attr :
        IF ~attr.ok THEN [result |-> IoError, self |-> self, hasher |-> hasher]
        ELSE Let(open(f, abs_path, fault), LAMBDA reader :
            IF ~reader.ok THEN [result |-> IoError, self |-> self, hasher |-> hasher]
            ELSE Let(compute(hasher, reader.value), LAMBDA hashes :
                IF ~hashes.result.ok
                THEN [result |-> IoError, self |-> self, hasher |-> hashes.self]
                ELSE [result |-> Ok(<<>>),
                      self |-> [self EXCEPT !.records =
                                   BTreeMap_insert(self.records, rel_path,
                                                   Record_new(attr.value, hashes.result.value))],
                      hasher |-> hashes.self]))))

----------------------------------------------------------------------------
(* inventory.rs: build, check, update.                                     *)

\* files.try_for_each(|r| r.and_then(|p| inventory.add_file(..))): the items
\* are handled in order and the first error ends the iteration.
RECURSIVE try_add_items(_, _, _, _, _, _)
try_add_items(self, f, repository, items, hasher, fault) ==
    IF items = <<>> THEN [result |-> Ok(<<>>), self |-> self]
    ELSE IF ~Head(items).ok THEN [result |-> IoError, self |-> self]
    ELSE Let(add_file(self, f, repository, Head(items).path, hasher, fault), LAMBDA r :
             IF ~r.result.ok THEN [result |-> IoError, self |-> r.self]
             ELSE try_add_items(r.self, f, repository, Tail(items), r.hasher, fault))

\* Inventory::build: the inventory of all files the traversal finds, or the
\* first error.
build(configuration, f, repository, fault) ==
    Let(DirectoryIterator_new(f, repository, configuration.skip_hidden, fault), LAMBDA files :
        IF ~files.ok THEN IoError
        ELSE Let(Hasher_new(BTreeSet_iter(configuration.hash_algorithms)), LAMBDA hasher :
             Let(relative_paths(files.value, f, fault), LAMBDA items :
             Let(try_add_items(Inventory_new(configuration), f, repository, items,
                               hasher, fault), LAMBDA r :
                 IF r.result.ok THEN Ok(r.self) ELSE IoError))))

\* The body of the loop of check as it would be without the else: the hashes
\* are compared in full mode whatever the size is.
verify_file_no_short_circuit(self, f, repository, file, check_hashes, hasher, rep, fault) ==
    Let(self.records[file], LAMBDA rec :
    Let(push(repository, file), LAMBDA file_abs :
    Let(metadata(f, file_abs, fault), LAMBDA attr :
        IF ~attr.ok THEN [result |-> IoError, report |-> rep, hasher |-> hasher]
        ELSE Let(IF attr.value # rec.size THEN add_failure(rep, file, SizeMismatch) ELSE rep,
                 LAMBDA sized :
            IF check_hashes
            THEN Let(open(f, file_abs, fault), LAMBDA reader :
                     IF ~reader.ok
                     THEN [result |-> IoError, report |-> rep, hasher |-> hasher]
                     ELSE Let(compute(hasher, reader.value), LAMBDA c :
                              IF ~c.result.ok
                              THEN [result |-> IoError, report |-> rep, hasher |-> c.self]
                              ELSE [result |-> Ok(<<>>),
                                    report |-> IF BTreeMap_collect(c.result.value) # rec.hashes
                                               THEN add_failure(sized, file, HashMismatch)
                                               ELSE sized,
                                    hasher |-> c.self]))
            ELSE [result |-> Ok(<<>>), report |-> sized, hasher |-> hasher]))))

\* The body of the loop of check as it would be if the hashes were compared
\* in quick mode too.
verify_file_always_hashing(self, f, repository, file, check_hashes, hasher, rep, fault) ==
    Let(self.records[file], LAMBDA rec :
    Let(push(repository, file), LAMBDA file_abs :
    Let(metadata(f, file_abs, fault), LAMBDA attr :
        IF ~attr.ok THEN [result |-> IoError, report |-> rep, hasher |-> hasher]
        ELSE IF attr.value # rec.size
        THEN [result |-> Ok(<<>>), report |-> add_failure(rep, file, SizeMismatch),
              hasher |-> hasher]
        ELSE Let(open(f, file_abs, fault), LAMBDA reader :
                 IF ~reader.ok THEN [result |-> IoError, report |-> rep, hasher |-> hasher]
                 ELSE Let(compute(hasher, reader.value), LAMBDA c :
                          IF ~c.result.ok
                          THEN [result |-> IoError, report |-> rep, hasher |-> c.self]
                          ELSE [result |-> Ok(<<>>),
                                report |-> IF BTreeMap_collect(c.result.value) # rec.hashes
                                           THEN add_failure(rep, file, HashMismatch)
                                           ELSE rep,
                                hasher |-> c.self])))))

\* The body of the loop of check, for one path present on both sides: a size
\* mismatch is recorded without hashing; otherwise, in full mode, the
\* recomputed hashes are compared with the recorded ones.
verify_file(self, f, repository, file, check_hashes, hasher, rep, fault) ==
    Let(self.records[file], LAMBDA rec :
    Let(push(repository, file), LAMBDA file_abs :
    Let(metadata(f, file_abs, fault), LAMBDA attr :
        IF ~attr.ok THEN [result |-> IoError, report |-> rep, hasher |-> hasher]
        ELSE IF attr.value # rec.size
        THEN [result |-> Ok(<<>>), report |-> add_failure(rep, file, SizeMismatch),
              hasher |-> hasher]
        ELSE IF check_hashes
        THEN Let(open(f, file_abs, fault), LAMBDA reader :
                 IF ~reader.ok THEN [result |-> IoError, report |-> rep, hasher |-> hasher]
                 ELSE Let(compute(hasher, reader.value), LAMBDA c :
                          IF ~c.result.ok
                          THEN [result |-> IoError, report |-> rep, hasher |-> c.self]
                          ELSE [result |-> Ok(<<>>),
                                report |-> IF BTreeMap_collect(c.result.value) # rec.hashes
                                           THEN add_failure(rep, file, HashMismatch)
                                           ELSE rep,
                                hasher |-> c.self]))
        ELSE [result |-> Ok(<<>>), report |-> rep, hasher |-> hasher])))

\* The loop of check as it would be if a path that cannot be probed were
\* reported as missing from the repository.
RECURSIVE verify_files_forgiving(_, _, _, _, _, _, _, _)
verify_files_forgiving(self, f, repository, files, check_hashes, hasher, rep, fault) ==
    IF files = <<>> THEN Ok(rep)
    ELSE Let(verify_file(self, f, repository, Head(files), check_hashes, hasher, rep, fault),
             LAMBDA r :
                 IF ~r.result.ok
                 THEN verify_files_forgiving(self, f, repository, Tail(files), check_hashes,
                                             r.hasher,
                                             add_failure(rep, Head(files), MissingFromRepository),
                                             fault)
                 ELSE verify_files_forgiving(self, f, repository, Tail(files), check_hashes,
                                             r.hasher, r.report, fault))

\* The loop of check over the paths present on both sides; the first error
\* ends it.
RECURSIVE verify_files(_, _, _, _, _, _, _, _)
verify_files(self, f, repository, files, check_hashes, hasher, rep, fault) ==
    IF files = <<>> THEN Ok(rep)
    ELSE Let(verify_file(self, f, repository, Head(files), check_hashes, hasher, rep, fault),
             LAMBDA r :
                 IF ~r.result.ok THEN IoError
                 ELSE verify_files(self, f, repository, Tail(files), check_hashes, r.hasher,
                                   r.report, fault))

\* The first part of Inventory::check: the set of the relative paths a fresh
\* traversal of the repository finds, or the first error.
check_snapshot(self, f, repository, fault) ==
    Let(DirectoryIterator_new(f, repository, self.configuration.skip_hidden, fault),
        LAMBDA files :
        IF ~files.ok THEN IoError
        ELSE collect(relative_paths(files.value, f, fault)))

\* The second part of Inventory::check as it would be if every recorded path
\* were reported as missing from the repository, and not only those the
\* snapshot does not hold.
check_verify_all_recorded(self, f, repository, check_hashes, repository_files, fault) ==
    Let(Hasher_new(BTreeSet_iter(self.configuration.hash_algorithms)), LAMBDA hasher :
    Let(DOMAIN self.records, LAMBDA inventory_files :
    Let(add_failures(Report_new, repository_files \ inventory_files,
                     MissingFromInventory), LAMBDA r1 :
    Let(add_failures(r1, inventory_files, MissingFromRepository), LAMBDA r2 :
        verify_files(self, f, repository,
                     HashSet_iter(inventory_files \cap repository_files),
                     check_hashes, hasher, r2, fault)))))

\* The second part of Inventory::check, on the repository as it is by then:
\* the two set differences against the snapshot, then the probe of every
\* path on both sides.
check_verify(self, f, repository, check_hashes, repository_files, fault) ==
    Let(Hasher_new(BTreeSet_iter(self.configuration.hash_algorithms)), LAMBDA hasher :
    Let(DOMAIN self.records, LAMBDA inventory_files :
    Let(add_failures(Report_new, repository_files \ inventory_files,
                     MissingFromInventory), LAMBDA r1 :
    Let(add_failures(r1, inventory_files \ repository_files,
                     MissingFromRepository), LAMBDA r2 :
        verify_files(self, f, repository,
                     HashSet_iter(inventory_files \cap repository_files),
                     check_hashes, hasher, r2, fault)))))

\* Inventory::check: the report, or the first error.
check(self, f, repository, check_hashes, fault) ==
    Let(check_snapshot(self, f, repository, fault), LAMBDA repository_files :
        IF ~repository_files.ok THEN IoError
        ELSE check_verify(self, f, repository, check_hashes, repository_files.value, fault))

\* try_for_each(|p| self.add_file(..)) as it would be if it ended, without
\* an error, after the first path.
try_add_files_first_only(self, f, repository, files, hasher, fault) ==
    IF files = <<>> THEN [result |-> Ok(<<>>), self |-> self]
    ELSE Let(add_file(self, f, repository, Head(files), hasher, fault), LAMBDA r :
             IF ~r.result.ok THEN [result |-> IoError, self |-> r.self]
             ELSE [result |-> Ok(<<>>), self |-> r.self])

\* try_for_each(|p| self.add_file(..)) over the paths in the given order.
RECURSIVE try_add_files(_, _, _, _, _, _)
try_add_files(self, f, repository, files, hasher, fault) ==
    IF files = <<>> THEN [result |-> Ok(<<>>), self |-> self]
    ELSE Let(add_file(self, f, repository, Head(files), hasher, fault), LAMBDA r :
             IF ~r.result.ok THEN [result |-> IoError, self |-> r.self]
             ELSE try_add_files(r.self, f, repository, Tail(files), r.hasher, fault))

\* The removal loop as it would be if it stopped after the first path.
remove_first_file(self, files) ==
    IF files = {} THEN self
    ELSE [self EXCEPT !.records = BTreeMap_remove(self.records, CHOOSE p \in files : TRUE)]

\* for_each(|p| self.records.remove(p)) over a set of paths.
RECURSIVE remove_files(_, _)
remove_files(self, files) ==
    IF files = {} THEN self
    ELSE Let(CHOOSE p \in files : TRUE, LAMBDA p :
             Let([self EXCEPT !.records = BTreeMap_remove(self.records, p)], LAMBDA removed :
                 remove_files(removed, files \ {p})))

\* Inventory::update as it would be if it removed the missing files whatever
\* remove_missing is.
update_always_removing(self, f, repository, remove_missing, fault, repository_files, order) ==
    Let(Hasher_new(BTreeSet_iter(self.configuration.hash_algorithms)), LAMBDA hasher :
    Let(DOMAIN self.records, LAMBDA inventory_files :
    Let(try_add_files(self, f, repository, order, hasher, fault), LAMBDA added :
        IF ~added.result.ok THEN added
        ELSE [result |-> Ok(<<>>),
              self |-> remove_files(added.self, inventory_files \ repository_files)])))

\* Inventory::update as it would be if a call that added a file left the
\* removal of the missing files to a later call.
update_in_order_removing_later(self, f, repository, remove_missing, fault, repository_files, order) ==
    Let(Hasher_new(BTreeSet_iter(self.configuration.hash_algorithms)), LAMBDA hasher :
    Let(DOMAIN self.records, LAMBDA inventory_files :
    Let(try_add_files(self, f, repository, order, hasher, fault), LAMBDA added :
        IF ~added.result.ok THEN added
        ELSE IF remove_missing /\ order = <<>>
        THEN [result |-> Ok(<<>>),
              self |-> remove_files(added.self, inventory_files \ repository_files)]
        ELSE added)))

\* Inventory::update with the repository-only paths visited in the given
\* order: the result and the inventory as the call leaves it.
update_in_order(self, f, repository, remove_missing, fault, repository_files, order) ==
    Let(Hasher_new(BTreeSet_iter(self.configuration.hash_algorithms)), LAMBDA hasher :
    Let(DOMAIN self.records, LAMBDA inventory_files :
    Let(try_add_files(self, f, repository, order, hasher, fault), LAMBDA added :
        IF ~added.result.ok THEN added
        ELSE IF remove_missing
        THEN [result |-> Ok(<<>>),
              self |-> remove_files(added.self, inventory_files \ repository_files)]
        ELSE added)))

\* Inventory::update as it would be if it added every file of the repository
\* and not only those without a record.
update_all_files(self, f, repository, remove_missing, fault) ==
    Let(DirectoryIterator_new(f, repository, self.configuration.skip_hidden, fault),
        LAMBDA files :
        IF ~files.ok THEN { [result |-> IoError, self |-> self] }
        ELSE Let(collect(relative_paths(files.value, f, fault)), LAMBDA repository_files :
                 IF ~repository_files.ok THEN { [result |-> IoError, self |-> self] }
                 ELSE { update_in_order(self, f, repository, remove_missing, fault,
                                        repository_files.value, order) :
                          order \in HashSet_orders(repository_files.value) }))

\* Inventory::update: every result the call may have, one for each order in
\* which the set difference may be iterated.
update(self, f, repository, remove_missing, fault) ==
    Let(DirectoryIterator_new(f, repository, self.configuration.skip_hidden, fault),
        LAMBDA files :
        IF ~files.ok THEN { [result |-> IoError, self |-> self] }
        ELSE Let(collect(relative_paths(files.value, f, fault)), LAMBDA repository_files :
                 IF ~repository_files.ok THEN { [result |-> IoError, self |-> self] }
                 ELSE { update_in_order(self, f, repository, remove_missing, fault,
                                        repository_files.value, order) :
                          order \in HashSet_orders(repository_files.value
                                                      \ DOMAIN self.records) }))

----------------------------------------------------------------------------
(* main.rs: the commands of the program and the inventory file they read   *)
(* and write.                                                              *)

\* The calls on the inventory file that may fail: opening it for reading,
\* opening it for writing, writing the document.
FileFault(kind) == [kind |-> kind, path |-> <<>>]
FileFaults == { FileFault(kind) : kind \in {"file_open", "file_create", "file_write"} }

\* An inventory file that holds a document, and what a failed write leaves
\* of a document.
Document(json) == [exists |-> TRUE, json |-> json]
Partial == [valid |-> FALSE]

\* serde_json::to_writer_pretty of an Inventory: the algorithms as a list in
\* their order, every hash value as its hex string.
to_json(inv) ==
    [valid |-> TRUE,
     configuration |-> [version |-> inv.configuration.version,
                        skip_hidden |-> inv.configuration.skip_hidden,
                        hash_algorithms |-> BTreeSet_iter(inv.configuration.hash_algorithms)],
     records |-> [p \in DOMAIN inv.records |->
                     [hashes |-> [a \in DOMAIN inv.records[p].hashes |->
                                     bytes_to_hex_string(inv.records[p].hashes[a])],
                      size |-> inv.records[p].size]]]

\* serde_json::from_reader of an Inventory: an error for what is no
\* document and for a hash value that is no hex string.
from_json(json) ==
    IF ~json.valid THEN IoError
    ELSE Let([p \in DOMAIN json.records |->
                 [a \in DOMAIN json.records[p].hashes |->
                     hex_string_to_bytes(json.records[p].hashes[a])]], LAMBDA decoded :
             IF \E p \in DOMAIN decoded : \E a \in DOMAIN decoded[p] : ~decoded[p][a].some
             THEN IoError
             ELSE Ok([configuration |->
                          [version |-> json.configuration.version,
                           skip_hidden |-> json.configuration.skip_hidden,
                           hash_algorithms |->
                               { json.configuration.hash_algorithms[i] :
                                   i \in 1..Len(json.configuration.hash_algorithms) }],
                      records |-> [p \in DOMAIN decoded |->
                                      [hashes |-> [a \in DOMAIN decoded[p] |->
                                                      decoded[p][a].item],
                                       size |-> json.records[p].size]]]))

\* The inventory file opened for reading and deserialized.
load(file, fault) ==
    IF ~file.exists \/ fault = FileFault("file_open") THEN IoError
    ELSE from_json(file.json)

\* The inventory file opened for writing (created or truncated) and the
\* inventory serialized into it: the result and the file as it is left.
store(file, inv, fault) ==
    IF fault = FileFault("file_create") THEN [result |-> IoError, file |-> file]
    ELSE IF fault = FileFault("file_write")
    THEN [result |-> IoError, file |-> Document(Partial)]
    ELSE [result |-> Ok(<<>>), file |-> Document(to_json(inv))]

\* What a command returns and leaves: its result, the inventory file, how the
\* engine call it made ended ("none": it made no call), the inventory it
\* loaded, the inventory it holds at its end, and the report of a check.
Outcome(result, file, called, loaded, held, rep) ==
    [result |-> result, file |-> file, engine |-> called, loaded |-> loaded,
     held |-> held, report |-> rep]

\* fn build: refuses to replace an existing file without overwrite, builds
\* the inventory, then writes the file.
main_build(file, command, f, fault) ==
    IF file.exists /\ ~command.overwrite
    THEN Outcome(IoError, file, "none", NoInventory, NoInventory, Report_new)
    ELSE Let(build(Configuration(command.skip_hidden, command.hash_algorithms),
                   f, Root, fault), LAMBDA built :
             IF ~built.ok
             THEN Outcome(IoError, file, "err", NoInventory, NoInventory, Report_new)
             ELSE Let(store(file, built.value, fault), LAMBDA stored :
                      Outcome(stored.result, stored.file, "ok", NoInventory, built.value,
                              Report_new)))

\* fn verify as it would be if it returned Ok whatever the report holds.
main_verify_lenient(file, command, f, fault) ==
    Let(load(file, fault), LAMBDA loaded :
        IF ~loaded.ok
        THEN Outcome(IoError, file, "none", NoInventory, NoInventory, Report_new)
        ELSE Let(check(loaded.value, f, Root, ~command.quick, fault), LAMBDA rep :
                 IF ~rep.ok
                 THEN Outcome(IoError, file, "err", loaded.value, loaded.value, Report_new)
                 ELSE Outcome(Ok(<<>>), file, "ok", loaded.value, loaded.value, rep.value)))

\* fn verify: loads the inventory and checks the repository; a report that
\* is not empty is an error (VerificationFailed).
main_verify(file, command, f, fault) ==
    Let(load(file, fault), LAMBDA loaded :
        IF ~loaded.ok
        THEN Outcome(IoError, file, "none", NoInventory, NoInventory, Report_new)
        ELSE Let(check(loaded.value, f, Root, ~command.quick, fault), LAMBDA rep :
                 IF ~rep.ok
                 THEN Outcome(IoError, file, "err", loaded.value, loaded.value, Report_new)
                 ELSE Outcome(IF ~Report_is_empty(rep.value) THEN IoError ELSE Ok(<<>>),
                              file, "ok", loaded.value, loaded.value, rep.value)))

\* fn update as it would be if it opened the inventory file for writing,
\* truncating it, before it updated the inventory.
main_update_truncating_first(file, command, f, fault) ==
    Let(load(file, fault), LAMBDA loaded :
        IF ~loaded.ok
        THEN { Outcome(IoError, file, "none", NoInventory, NoInventory, Report_new) }
        ELSE { IF ~updated.result.ok
               THEN Outcome(IoError, Document(Partial), "err", loaded.value, updated.self,
                            Report_new)
               ELSE Let(store(file, updated.self, fault), LAMBDA stored :
                        Outcome(stored.result, stored.file, "ok", loaded.value,
                                updated.self, Report_new)) :
                 updated \in update(loaded.value, f, Root, command.remove_missing, fault) })

\* fn update: loads the inventory, updates it in place, then writes the
\* file. Every outcome the command may have.
main_update(file, command, f, fault) ==
    Let(load(file, fault), LAMBDA loaded :
        IF ~loaded.ok
        THEN { Outcome(IoError, file, "none", NoInventory, NoInventory, Report_new) }
        ELSE { IF ~updated.result.ok
               THEN Outcome(IoError, file, "err", loaded.value, updated.self, Report_new)
               ELSE Let(store(file, updated.self, fault), LAMBDA stored :
                        Outcome(stored.result, stored.file, "ok", loaded.value,
                                updated.self, Report_new)) :
                 updated \in update(loaded.value, f, Root, command.remove_missing, fault) })

\* fn run: the command the parameters select.
run(file, command, f, fault) ==
    IF command.name = "build" THEN { main_build(file, command, f, fault) }
    ELSE IF command.name = "verify" THEN { main_verify(file, command, f, fault) }
    ELSE main_update(file, command, f, fault)

\* The status fn main exits with for a result of run.
exit_code(result) == IF result.ok THEN 0 ELSE 1

----------------------------------------------------------------------------
(* The state machine: the repository is inventoried, drifts, and is then   *)
(* checked and updated. Spec has no failing filesystem call; in SpecIo any *)
(* one call of an operation may fail.                                      *)

\* What a file holds in the initial repository.
InitialData == <<0>>
InitialTrees == [FilePaths -> {Absent, File(InitialData)}]

Last(op, flag, ok) == [op |-> op, flag |-> flag, ok |-> ok]

\* No check is in progress and no component is used on its own.
NoCheck == [stage |-> "idle"]
NoTraversal == [stage |-> "idle"]
NoHashing == [stage |-> "idle"]
NoCodec == [stage |-> "idle"]
\* The inventory file does not exist and the program has not been run.
NoFile == [exists |-> FALSE]
NoProcess == [stage |-> "idle"]
Idle ==
    /\ checking = NoCheck
    /\ traversal = NoTraversal
    /\ hashing = NoHashing
    /\ codec = NoCodec
    /\ inventory_file = NoFile
    /\ process = NoProcess

Init ==
    /\ fs \in InitialTrees
    /\ inventory = NoInventory
    /\ last = Last("init", FALSE, TRUE)
    /\ report = Report_new
    /\ before = NoInventory
    /\ changes = 0
    /\ Idle

\* Inventory::build called with a configuration on the repository, when
\* there is no inventory yet.
Build(configuration, fault) ==
    /\ inventory = NoInventory
    /\ \E r \in { build(configuration, fs, Root, fault) } :
          /\ inventory' = IF r.ok THEN r.value ELSE inventory
          /\ last' = Last("build", configuration.skip_hidden, r.ok)
    /\ report' = Report_new
    /\ before' = inventory
    /\ UNCHANGED <<fs, changes>>
    /\ UNCHANGED <<components, cli>>

\* Inventory::check as it would be if it took the inventory mutably and
\* dropped the records of the files it finds missing.
Check_pruning(check_hashes, fault) ==
    /\ inventory # NoInventory
    /\ \E r \in { check(inventory, fs, Root, check_hashes, fault) } :
          /\ report' = IF r.ok THEN r.value ELSE Report_new
          /\ last' = Last("check", check_hashes, r.ok)
          /\ inventory' = IF r.ok
                           THEN remove_files(inventory,
                                             ByFailure(r.value, MissingFromRepository))
                           ELSE inventory
    /\ before' = inventory
    /\ UNCHANGED <<fs, changes>>
    /\ UNCHANGED <<components, cli>>

\* Inventory::check called on the inventory.
Check(check_hashes, fault) ==
    /\ inventory # NoInventory
    /\ \E r \in { check(inventory, fs, Root, check_hashes, fault) } :
          /\ report' = IF r.ok THEN r.value ELSE Report_new
          /\ last' = Last("check", check_hashes, r.ok)
    /\ before' = inventory
    /\ UNCHANGED <<fs, inventory, changes>>
    /\ UNCHANGED <<components, cli>>

\* Inventory::check, called once, up to its snapshot of the repository. A
\* traversal that fails ends the check at once.
CheckSnapshot(check_hashes, fault) ==
    /\ inventory # NoInventory
    /\ checking.stage = "idle"
    /\ \E r \in { check_snapshot(inventory, fs, Root, fault) } :
          /\ checking' = [stage |-> IF r.ok THEN "snapshot" ELSE "done",
                          repository_files |-> IF r.ok THEN r.value ELSE {},
                          check_hashes |-> check_hashes,
                          fault |-> fault]
          /\ last' = Last(IF r.ok THEN "snapshot" ELSE "check", check_hashes, r.ok)
    /\ report' = Report_new
    /\ before' = inventory
    /\ UNCHANGED <<fs, inventory, changes, traversal, hashing, codec, cli>>

\* A file is deleted after the snapshot of a check and before its probes.
RemovedMeanwhile(p) ==
    /\ checking.stage = "snapshot"
    /\ fs[p].exists
    /\ fs' = [fs EXCEPT ![p] = Absent]
    /\ changes' = changes + 1
    /\ UNCHANGED <<inventory, last, report, before, checking, traversal, hashing, codec, cli>>

\* The rest of Inventory::check, on the repository as it is now.
CheckVerify ==
    /\ checking.stage = "snapshot"
    /\ \E r \in { check_verify(inventory, fs, Root, checking.check_hashes,
                                checking.repository_files, checking.fault) } :
          /\ report' = IF r.ok THEN r.value ELSE Report_new
          /\ last' = Last("check", checking.check_hashes, r.ok)
    /\ checking' = [checking EXCEPT !.stage = "done"]
    /\ UNCHANGED <<fs, inventory, before, changes, traversal, hashing, codec, cli>>

\* Inventory::update called on the inventory.
Update(remove_missing, fault) ==
    /\ inventory # NoInventory
    /\ \E r \in update(inventory, fs, Root, remove_missing, fault) :
          /\ inventory' = r.self
          /\ last' = Last("update", remove_missing, r.result.ok)
    /\ report' = Report_new
    /\ before' = inventory
    /\ UNCHANGED <<fs, changes>>
    /\ UNCHANGED <<components, cli>>

\* The repository drifts between the build and the first check or update,
\* by at most max changes.
Drifting(max) ==
    /\ inventory # NoInventory
    /\ last.op \in {"build", "drift"}
    /\ changes < max

\* A file is created or its bytes are replaced.
WriteFile(p, c, max) ==
    /\ Drifting(max)
    /\ fs[p] # File(c)
    /\ fs' = [fs EXCEPT ![p] = File(c)]
    /\ changes' = changes + 1
    /\ last' = Last("drift", FALSE, TRUE)
    /\ report' = Report_new
    /\ before' = inventory
    /\ UNCHANGED inventory
    /\ UNCHANGED <<components, cli>>

\* A file is deleted.
RemoveFile(p, max) ==
    /\ Drifting(max)
    /\ fs[p].exists
    /\ fs' = [fs EXCEPT ![p] = Absent]
    /\ changes' = changes + 1
    /\ last' = Last("drift", FALSE, TRUE)
    /\ report' = Report_new
    /\ before' = inventory
    /\ UNCHANGED inventory
    /\ UNCHANGED <<components, cli>>

Next ==
    \/ \E configuration \in Configurations : Build(configuration, NoFault)
    \/ \E check_hashes \in BOOLEAN : Check(check_hashes, NoFault)
    \/ \E remove_missing \in BOOLEAN : Update(remove_missing, NoFault)
    \/ \E p \in FilePaths, c \in Contents : WriteFile(p, c, MaxChanges)
    \/ \E p \in FilePaths : RemoveFile(p, MaxChanges)

Spec == Init /\ [][Next]_vars

NextIo ==
    \/ \E configuration \in Configurations, fault \in Faults : Build(configuration, fault)
    \/ \E check_hashes \in BOOLEAN, fault \in Faults : Check(check_hashes, fault)
    \/ \E remove_missing \in BOOLEAN, fault \in Faults : Update(remove_missing, fault)
    \/ \E p \in FilePaths, c \in Contents : WriteFile(p, c, MaxChangesIo)
    \/ \E p \in FilePaths : RemoveFile(p, MaxChangesIo)

SpecIo == Init /\ [][NextIo]_vars

\* Build alone, on every repository within the bounds.
Trees == [FilePaths -> {Absent} \cup { File(c) : c \in Contents }]

InitBuild ==
    /\ fs \in Trees
    /\ inventory = NoInventory
    /\ last = Last("init", FALSE, TRUE)
    /\ report = Report_new
    /\ before = NoInventory
    /\ changes = 0
    /\ Idle

NextBuild ==
    \E configuration \in Configurations, fault \in Faults : Build(configuration, fault)

SpecBuild == InitBuild /\ [][NextBuild]_vars

\* Build, drift and update, any one filesystem call of an operation failing.
NextUpdate ==
    \/ \E configuration \in Configurations, fault \in Faults : Build(configuration, fault)
    \/ \E remove_missing \in BOOLEAN, fault \in Faults : Update(remove_missing, fault)
    \/ \E p \in FilePaths, c \in Contents : WriteFile(p, c, MaxChanges)
    \/ \E p \in FilePaths : RemoveFile(p, MaxChanges)

SpecUpdate == Init /\ [][NextUpdate]_vars

\* DirectoryIterator::new(root, skip_hidden).relative_paths() on the
\* repository; fault is the directory call that fails while it is used.
Open(skip_hidden, fault) ==
    /\ traversal.stage = "idle"
    /\ \E r \in { DirectoryIterator_new(fs, Root, skip_hidden, fault) } :
          traversal' = IF r.ok
                       THEN [stage |-> "open", self |-> r.value, fault |-> fault,
                             yielded |-> <<>>, ended |-> FALSE]
                       ELSE [stage |-> "failed", fault |-> fault]
    /\ UNCHANGED <<engine, checking, hashing, codec, cli>>

\* Iterator::next on the relative-path iterator, until it has returned None:
\* the item is appended to those yielded so far.
NextItem ==
    /\ traversal.stage = "open"
    /\ ~traversal.ended
    /\ \E r \in { relative_paths_next(traversal.self, fs, traversal.fault) } :
          traversal' = [traversal EXCEPT
                           !.self = r.self,
                           !.yielded = IF r.result.some THEN Append(@, r.result.item) ELSE @,
                           !.ended = ~r.result.some]
    /\ UNCHANGED <<engine, checking, hashing, codec, cli>>

\* The calls of a traversal that may fail: opening a directory, reading an
\* entry of it.
DirFaults == {NoFault} \cup [kind : {"read_dir", "entry", "entry_end"}, path : Dirs]

\* The traversal used on its own, on every tree of existing and missing
\* files over the deeper paths.
DeepTrees == [DeepPaths -> {Absent, File(InitialData)}]

InitTraversal ==
    /\ fs \in DeepTrees
    /\ inventory = NoInventory
    /\ last = Last("init", FALSE, TRUE)
    /\ report = Report_new
    /\ before = NoInventory
    /\ changes = 0
    /\ Idle

NextTraversal ==
    \/ \E skip_hidden \in BOOLEAN, fault \in DirFaults : Open(skip_hidden, fault)
    \/ NextItem

SpecTraversal == InitTraversal /\ [][NextTraversal]_vars

\* Iterator::next called once more after it has returned None. Kept of the
\* call: whether the condition of the debug_assert at its entry held, and
\* what the call did: with debug assertions compiled in a failed assertion
\* panics; without them the loop is not entered and None is returned.
NextAfterEnd(debug_assertions) ==
    /\ traversal.stage = "open"
    /\ traversal.ended
    /\ \E asserted \in { Len(traversal.self.stack) > 0 } :
          traversal' =
              [stage |-> "after_end",
               self |-> traversal.self,
               fault |-> traversal.fault,
               yielded |-> traversal.yielded,
               asserted |-> asserted,
               outcome |-> IF debug_assertions /\ ~asserted THEN "panic"
                           ELSE IF DirectoryIterator_next(traversal.self, fs,
                                                          traversal.fault).result.some
                                THEN "item"
                                ELSE "none"]
    /\ UNCHANGED <<engine, checking, hashing, codec, cli>>

\* The traversal with a consumer that asks for an item once more after the
\* end of the sequence, in a build with and without debug assertions.
NextTraversalAfterEnd ==
    \/ NextTraversal
    \/ \E debug_assertions \in BOOLEAN : NextAfterEnd(debug_assertions)

SpecTraversalAfterEnd == InitTraversal /\ [][NextTraversalAfterEnd]_vars

\* The traversal with a consumer that goes on requesting items until the
\* end of the sequence.
SpecTraversalLive == SpecTraversal /\ WF_vars(NextItem)

\* Hasher::new with the algorithms of a set, in their order.
NewHasher(algorithms) ==
    /\ hashing.stage = "idle"
    /\ hashing' = [stage |-> "ready",
                   self |-> Hasher_new(BTreeSet_iter(algorithms)),
                   algorithms |-> algorithms,
                   calls |-> 0,
                   stream |-> <<>>, short |-> CHUNK_SIZE, result |-> IoError,
                   clean |-> TRUE,
                   prev |-> [ok |-> TRUE, fed |-> FALSE, len |-> 0],
                   fed |-> FALSE]
    /\ UNCHANGED <<engine, checking, traversal, codec, cli>>

\* Hasher::compute on a reader over the bytes of a stream; the reader
\* returns at most short bytes per read and its read call fail_at fails.
\* Kept with the result: whether every call so far succeeded, and whether
\* this call and the one before it failed after a chunk was fed.
Compute(data, fail_at, short) ==
    /\ hashing.stage = "ready"
    /\ hashing.calls < MaxCalls
    /\ \E r \in { compute(hashing.self, ShortReader(data, fail_at, short)) } :
          hashing' = [hashing EXCEPT
                         !.self = r.self,
                         !.calls = @ + 1,
                         !.stream = data,
                         !.short = short,
                         !.result = r.result,
                         !.clean = @ /\ r.result.ok,
                         !.prev = [ok |-> hashing.calls = 0 \/ hashing.result.ok,
                                   fed |-> hashing.fed,
                                   len |-> Len(hashing.stream)],
                         !.fed = ~r.result.ok /\ fail_at >= 2 /\ Len(data) > 0]
    /\ UNCHANGED <<engine, checking, traversal, codec, cli>>

\* The streams a hasher is given.
Streams == UNION { [1..n -> Bytes] : n \in 0..MaxStream }

\* The repository without files, for the components that do not use it.
EmptyTree == [p \in FilePaths |-> Absent]

InitHasher ==
    /\ fs = EmptyTree
    /\ inventory = NoInventory
    /\ last = Last("init", FALSE, TRUE)
    /\ report = Report_new
    /\ before = NoInventory
    /\ changes = 0
    /\ Idle

\* One hasher, reused for several streams, any read of which may fail.
NextHasher ==
    \/ \E algorithms \in (SUBSET HashAlgorithms) \ {{}} : NewHasher(algorithms)
    \/ /\ hashing.stage = "ready"
       /\ hashing.calls < MaxCalls
       /\ \E data \in Streams, fail_at \in 0..(MaxStream + 1), short \in 1..CHUNK_SIZE :
             Compute(data, fail_at, short)

SpecHasher == InitHasher /\ [][NextHasher]_vars

\* Hasher::new with the algorithms an iterator yields, as they come.
NewHasherFrom(given) ==
    /\ hashing.stage = "idle"
    /\ hashing' = [stage |-> "ready",
                   self |-> Hasher_new(given),
                   algorithms |-> { given[i] : i \in 1..Len(given) },
                   given |-> given,
                   calls |-> 0,
                   stream |-> <<>>, short |-> CHUNK_SIZE, result |-> IoError,
                   clean |-> TRUE,
                   prev |-> [ok |-> TRUE, fed |-> FALSE, len |-> 0],
                   fed |-> FALSE]
    /\ UNCHANGED <<engine, checking, traversal, codec, cli>>

\* The sequences of algorithms a hasher is made from: every order, with and
\* without a repeated algorithm.
AlgorithmSequences ==
    UNION { [1..n -> HashAlgorithms] : n \in 1..Cardinality(HashAlgorithms) }

\* One hasher made from a sequence of algorithms and reused.
NextHasherFrom ==
    \/ \E given \in AlgorithmSequences : NewHasherFrom(given)
    \/ /\ hashing.stage = "ready"
       /\ hashing.calls < MaxCalls
       /\ \E data \in Streams, fail_at \in 0..(MaxStream + 1), short \in 1..CHUNK_SIZE :
             Compute(data, fail_at, short)

SpecHasherFrom == InitHasher /\ [][NextHasherFrom]_vars

\* The bytes the encoder is tried on beyond single bytes: every pair of the
\* nibbles at the ends of the two ranges of nibble_to_char.
SampleNibbles == {0, 9, 10, 15}
SampleBytes == { 16 * hi + lo : hi, lo \in SampleNibbles }
ByteSeqs ==
    [1..1 -> 0..255] \cup UNION { [1..n -> SampleBytes] : n \in 0..MaxHexBytes }

\* The characters the decoder is tried on, as UTF-8: the ends of the three
\* ranges of char_to_nibble, their neighbours, and a character of two bytes.
SampleChars ==
    { <<c>> : c \in {47, 48, 57, 58, 64, 65, 70, 71, 96, 97, 102, 103} }
    \cup { <<195, 169>> }
CharSeqs == UNION { [1..n -> SampleChars] : n \in 0..MaxHexChars }

\* str::bytes: the bytes of the characters of a string, in order.
RECURSIVE str_bytes(_)
str_bytes(chars) ==
    IF chars = <<>> THEN <<>> ELSE Head(chars) \o str_bytes(Tail(chars))

\* util::bytes_to_hex_string called on a byte sequence.
Encode(b) ==
    /\ codec.stage = "idle"
    /\ codec' = [stage |-> "encoded", bytes |-> b, string |-> bytes_to_hex_string(b)]
    /\ UNCHANGED <<engine, checking, traversal, hashing, cli>>

\* util::hex_string_to_bytes called on the string the encoder returned.
DecodeBack ==
    /\ codec.stage = "encoded"
    /\ codec' = [stage |-> "decoded", bytes |-> codec.bytes, string |-> codec.string,
                 result |-> hex_string_to_bytes(codec.string)]
    /\ UNCHANGED <<engine, checking, traversal, hashing, cli>>

\* util::hex_string_to_bytes called on a string.
Decode(chars) ==
    /\ codec.stage = "idle"
    /\ \E s \in { str_bytes(chars) } :
          codec' = [stage |-> "parsed", chars |-> chars, string |-> s,
                    result |-> hex_string_to_bytes(s)]
    /\ UNCHANGED <<engine, checking, traversal, hashing, cli>>

InitCodec ==
    /\ fs = EmptyTree
    /\ inventory = NoInventory
    /\ last = Last("init", FALSE, TRUE)
    /\ report = Report_new
    /\ before = NoInventory
    /\ changes = 0
    /\ Idle

NextCodec ==
    \/ codec.stage = "idle" /\ \E b \in ByteSeqs : Encode(b)
    \/ DecodeBack
    \/ codec.stage = "idle" /\ \E chars \in CharSeqs : Decode(chars)

SpecCodec == InitCodec /\ [][NextCodec]_vars

\* The calls of a check that probe a file.
ProbeFaults == {NoFault} \cup [kind : {"metadata", "open", "read"}, path : FilePaths]

\* Build, drift and a check during which files may be deleted and any one
\* probe may fail.
NextProbe ==
    \/ \E configuration \in Configurations : Build(configuration, NoFault)
    \/ \E p \in FilePaths, c \in Contents : WriteFile(p, c, MaxChangesIo)
    \/ \E p \in FilePaths : RemoveFile(p, MaxChangesIo)
    \/ \E check_hashes \in BOOLEAN, fault \in ProbeFaults : CheckSnapshot(check_hashes, fault)
    \/ \E p \in FilePaths : RemovedMeanwhile(p)
    \/ CheckVerify

SpecProbe == Init /\ [][NextProbe]_vars

\* The commands the program is run with: the subcommand and its arguments.
Commands ==
    [name : {"build"}, overwrite : BOOLEAN, skip_hidden : BOOLEAN,
     hash_algorithms : (SUBSET HashAlgorithms) \ {{}}]
    \cup [name : {"verify"}, quick : BOOLEAN]
    \cup [name : {"update"}, remove_missing : BOOLEAN]

\* The flag of a command that the engine call takes.
CommandFlag(command) ==
    IF command.name = "build" THEN command.skip_hidden
    ELSE IF command.name = "verify" THEN ~command.quick
    ELSE command.remove_missing

\* The number of runs of the program so far.
Runs == IF process.stage = "idle" THEN 0 ELSE process.runs

\* fn main: one run of the program with a command, up to its exit. Kept of
\* the run: the name of its command, how the engine call ended, the
\* inventory file as the run found it, and the exit code.
Main(command, fault) ==
    /\ Runs < MaxRuns
    /\ \E r \in run(inventory_file, command, fs, fault) :
          /\ inventory_file' = r.file
          /\ process' = [stage |-> "exited", name |-> command.name,
                         engine |-> r.engine, found |-> inventory_file,
                         exit_code |-> exit_code(r.result), runs |-> Runs + 1]
          /\ inventory' = r.held
          /\ before' = r.loaded
          /\ report' = r.report
          /\ last' = Last(command.name, CommandFlag(command), r.result.ok)
    /\ UNCHANGED <<fs, changes>>
    /\ UNCHANGED components

\* The calls of a run that may fail: opening a directory, reading a file,
\* and those on the inventory file.
CliFaults ==
    {NoFault}
    \cup [kind : {"read_dir"}, path : Dirs]
    \cup [kind : {"read"}, path : FilePaths]
    \cup FileFaults

\* Runs of the program, any one call of a run failing; the repository drifts
\* after a build.
NextCli ==
    \/ Runs < MaxRuns /\ \E command \in Commands, fault \in CliFaults : Main(command, fault)
    \/ \E p \in FilePaths, c \in Contents : WriteFile(p, c, MaxChangesIo)
    \/ \E p \in FilePaths : RemoveFile(p, MaxChangesIo)

SpecCli == Init /\ [][NextCli]_vars

TypeOK ==
    /\ fs \in Trees
    /\ DOMAIN inventory.records \subseteq FilePaths
    /\ changes \in 0..MaxChanges

----------------------------------------------------------------------------
(* Vocabulary of the properties.                                           *)

\* A path is hidden or lies below a hidden directory.
HiddenPath(p) == \E i \in 1..Len(p) : Len(p[i]) > 0 /\ p[i][1] = "."

\* The files of the repository an inventory with the given flag covers.
Covered(f, skip_hidden) ==
    { p \in DOMAIN f : f[p].exists /\ (skip_hidden => ~HiddenPath(p)) }

\* The reference digest of a byte sequence: all of it absorbed at once by a
\* fresh digest.
Reference(a, data) == Digest_output(a, Digest_update(a, Digest_new(a), data))

\* The reference digests of a byte sequence for a set of algorithms.
ReferenceMap(algorithms, data) == [a \in algorithms |-> Reference(a, data)]

\* The record a file of the repository should have.
RecordOf(f, p, algorithms) ==
    [hashes |-> ReferenceMap(algorithms, f[p].data), size |-> Len(f[p].data)]

----------------------------------------------------------------------------
(* Properties.                                                             *)

\* C1: a successful build returns an inventory whose record paths are
\* exactly the files of the tree (without the hidden ones and those below a
\* hidden directory when skip_hidden is set), each record holding the byte
\* length of its file and, for each configured algorithm, the reference
\* digest of its bytes.
C1_BuildRecordsTree ==
    (last.op = "build" /\ last.ok) =>
        /\ DOMAIN inventory.records = Covered(fs, inventory.configuration.skip_hidden)
        /\ \A p \in DOMAIN inventory.records :
              inventory.records[p] =
                  RecordOf(fs, p, inventory.configuration.hash_algorithms)

\* A build with skip_hidden that recorded a file and left hidden ones out.
C1_Witness ==
    /\ last.op = "build" /\ last.ok
    /\ inventory.configuration.skip_hidden
    /\ inventory.configuration.hash_algorithms = HashAlgorithms
    /\ DOMAIN inventory.records # {}
    /\ \E p \in FilePaths : fs[p].exists /\ p \notin DOMAIN inventory.records
    /\ \E p \in DOMAIN inventory.records : Len(fs[p].data) = MaxLen

\* The paths the traversal of the repository finds for the inventory.
Traversed ==
    collect(relative_paths(
        DirectoryIterator_new(fs, Root, inventory.configuration.skip_hidden, NoFault).value,
        fs, NoFault)).value

\* The last operation was a check that returned a report, in the given mode.
Checked(check_hashes) == last.op = "check" /\ last.ok /\ last.flag = check_hashes
CheckedAny == last.op = "check" /\ last.ok

\* The paths with a record whose file is in the repository.
OnBothSides == DOMAIN inventory.records \cap Traversed

\* C2: a full check of the inventory build returned, on the repository as
\* build saw it, returns an empty report.
C2_CheckAfterBuildEmpty ==
    (Checked(TRUE) /\ changes = 0) => Report_is_empty(report)

\* A full check right after the build of an inventory with two records.
C2_Witness ==
    /\ Checked(TRUE) /\ changes = 0
    /\ Cardinality(DOMAIN inventory.records) >= 2
    /\ Report_is_empty(report)

\* C3: in a report, MissingFromRepository holds exactly the recorded paths
\* the traversal did not find and MissingFromInventory exactly the traversed
\* paths without a record; one tracked file deleted, or one untracked file
\* created, on an otherwise unchanged tree is the only failure reported.
C3_MissingSets ==
    CheckedAny =>
        /\ ByFailure(report, MissingFromRepository) = DOMAIN inventory.records \ Traversed
        /\ ByFailure(report, MissingFromInventory) = Traversed \ DOMAIN inventory.records
        /\ \A p \in FilePaths :
              (changes = 1 /\ p \in DOMAIN inventory.records /\ ~fs[p].exists)
                  => report.contents = (MissingFromRepository :> {p})
        /\ \A p \in FilePaths :
              (changes = 1 /\ p \in Traversed \ DOMAIN inventory.records)
                  => report.contents = (MissingFromInventory :> {p})

\* A check after two tracked files were deleted.
C3_Witness ==
    /\ CheckedAny
    /\ Cardinality(ByFailure(report, MissingFromRepository)) = 2
    /\ DOMAIN report.contents = {MissingFromRepository}

\* C4: a path on both sides whose size differs from the recorded size is
\* reported as SizeMismatch and never as HashMismatch, in both modes.
C4_SizeMismatchOnly ==
    CheckedAny =>
        \A p \in OnBothSides :
            Len(fs[p].data) # inventory.records[p].size =>
                /\ p \in ByFailure(report, SizeMismatch)
                /\ p \notin ByFailure(report, HashMismatch)

\* A full check of a tracked file that was truncated.
C4_Witness ==
    /\ Checked(TRUE)
    /\ \E p \in OnBothSides :
          /\ Len(fs[p].data) < inventory.records[p].size
          /\ report.contents = (SizeMismatch :> {p})

\* C5: in full mode a path on both sides whose size equals the recorded size
\* is reported as HashMismatch exactly if the digests of its bytes are not
\* the recorded map; a tracked file overwritten with different bytes of the
\* same length is reported as HashMismatch.
C5_HashMismatchIff ==
    Checked(TRUE) =>
        \A p \in OnBothSides :
            Len(fs[p].data) = inventory.records[p].size =>
                /\ p \in ByFailure(report, HashMismatch)
                      <=> ReferenceMap(inventory.configuration.hash_algorithms, fs[p].data)
                              # inventory.records[p].hashes
                /\ \A c \in Contents :
                      ( /\ c # fs[p].data
                        /\ Len(c) = Len(fs[p].data)
                        /\ inventory.records[p].hashes =
                               ReferenceMap(inventory.configuration.hash_algorithms, c) )
                          => p \in ByFailure(report, HashMismatch)

\* A full check that reports one overwritten file of the recorded size
\* beside an unchanged one it does not report.
C5_Witness ==
    /\ Checked(TRUE)
    /\ Cardinality(OnBothSides) >= 2
    /\ \E p \in OnBothSides :
          /\ Len(fs[p].data) = inventory.records[p].size
          /\ fs[p].data # InitialData
          /\ report.contents = (HashMismatch :> {p})

\* C6: a quick check never reports HashMismatch, and its report is empty
\* when the tree differs from the inventoried one only in the bytes of files
\* that kept their size.
C6_QuickNoHashMismatch ==
    Checked(FALSE) =>
        /\ HashMismatch \notin DOMAIN report.contents
        /\ ( /\ DOMAIN inventory.records = Traversed
              /\ \A p \in Traversed : Len(fs[p].data) = inventory.records[p].size )
               => Report_is_empty(report)

\* A quick check, with an empty report, of a tree with a file whose bytes
\* are no longer those recorded.
C6_Witness ==
    /\ Checked(FALSE)
    /\ Report_is_empty(report)
    /\ \E p \in OnBothSides :
          ReferenceMap(inventory.configuration.hash_algorithms, fs[p].data)
              # inventory.records[p].hashes

\* The last operation was an update, or a successful one with the given flag.
Updated == last.op = "update"
UpdatedOk(remove_missing) == Updated /\ last.ok /\ last.flag = remove_missing

\* C7: a successful update without remove_missing adds the record (current
\* size and hashes) of every repository path that had none and leaves every
\* record it found, those of deleted files included, as it was.
C7_UpdateKeepsRecords ==
    UpdatedOk(FALSE) =>
        /\ \A p \in DOMAIN before.records :
              p \in DOMAIN inventory.records /\ inventory.records[p] = before.records[p]
        /\ \A p \in Traversed \ DOMAIN before.records :
              /\ p \in DOMAIN inventory.records
              /\ inventory.records[p] =
                     RecordOf(fs, p, inventory.configuration.hash_algorithms)
        /\ inventory.configuration = before.configuration

\* An update without remove_missing of a tree with one file deleted and one
\* file added.
C7_Witness ==
    /\ UpdatedOk(FALSE)
    /\ \E p \in DOMAIN before.records : ~fs[p].exists /\ p \in DOMAIN inventory.records
    /\ \E p \in DOMAIN inventory.records : p \notin DOMAIN before.records

\* C8: after a successful update with remove_missing the record paths are
\* exactly the paths its traversal found.
C8_UpdateRemoveMissing ==
    UpdatedOk(TRUE) => DOMAIN inventory.records = Traversed

\* An update with remove_missing that dropped the records of two deleted
\* files.
C8_Witness ==
    /\ UpdatedOk(TRUE)
    /\ Cardinality(DOMAIN before.records \ DOMAIN inventory.records) = 2
    /\ DOMAIN inventory.records = Covered(fs, inventory.configuration.skip_hidden)

\* C9: an update, whatever its flag and its result, leaves the record of
\* every path present on both sides as it was, also when the file no longer
\* has the recorded size or bytes, and a full check then reports the file.
C9_UpdateLeavesTracked ==
    Updated =>
        \A p \in DOMAIN before.records \cap Covered(fs, before.configuration.skip_hidden) :
            /\ p \in DOMAIN inventory.records
            /\ inventory.records[p] = before.records[p]
            /\ inventory.records[p] # RecordOf(fs, p, inventory.configuration.hash_algorithms)
                  => \E kind \in {SizeMismatch, HashMismatch} :
                        p \in ByFailure(check(inventory, fs, Root, TRUE, NoFault).value, kind)

\* A successful update of a tree with a tracked file whose bytes changed.
C9_Witness ==
    /\ Updated /\ last.ok
    /\ \E p \in DOMAIN before.records :
          /\ fs[p].exists
          /\ fs[p].data # InitialData
          /\ inventory.records[p] = before.records[p]
          /\ inventory.records[p] # RecordOf(fs, p, inventory.configuration.hash_algorithms)

\* C10: a check, whether it returns a report or an error and in either
\* mode, leaves the configuration and every record of the inventory as they
\* were.
C10_CheckReadOnly ==
    last.op = "check" => inventory = before

\* A check of an inventory with records that returned an error.
C10_Witness ==
    /\ last.op = "check" /\ ~last.ok
    /\ DOMAIN inventory.records # {}
    /\ inventory = before

\* C11: build and update abort atomically on the first I/O error: a failed
\* build returns no inventory, and after an update that returned an error
\* the inventory holds exactly the records it held before the call.
C11_FailedCallAtomic ==
    /\ (last.op = "build" /\ ~last.ok) => inventory = NoInventory
    /\ (Updated /\ ~last.ok) => inventory.records = before.records

\* A path of the snapshot with a record whose probe in the finished check
\* fails: the file is gone, or the failing call is its metadata read or, in
\* full mode with the recorded size, its open or a read of it.
ProbeFails(p) ==
    \/ ~fs[p].exists
    \/ checking.fault = [kind |-> "metadata", path |-> p]
    \/ /\ checking.check_hashes
       /\ Len(fs[p].data) = inventory.records[p].size
       /\ checking.fault \in [kind : {"open", "read"}, path : {p}]

\* C12: when a path the snapshot of a check found cannot be probed
\* afterwards (metadata, or open or read for hashing), the check returns an
\* error and no report; MissingFromRepository holds the recorded paths that
\* are not in the snapshot and nothing else.
C12_ProbeFailureIsError ==
    checking.stage = "done" =>
        /\ (\E p \in checking.repository_files \cap DOMAIN inventory.records : ProbeFails(p))
               => (~last.ok /\ report = Report_new)
        /\ last.ok => ByFailure(report, MissingFromRepository)
                          = DOMAIN inventory.records \ checking.repository_files

\* A check that failed because a tracked file of its snapshot was deleted
\* before it was probed, no call failing otherwise.
C12_Witness ==
    /\ checking.stage = "done"
    /\ checking.fault = NoFault
    /\ ~last.ok
    /\ \E p \in checking.repository_files \cap DOMAIN inventory.records : ~fs[p].exists
    /\ \E p \in checking.repository_files \cap DOMAIN inventory.records : fs[p].exists

\* The traversal in use, the items it has yielded and their paths.
Traversing == traversal.stage = "open"
Yielded == traversal.yielded
YieldedPaths == [i \in 1..Len(Yielded) |-> Yielded[i].path]
\* The traversal came to its end without a failing call.
TraversedAll == Traversing /\ traversal.ended /\ traversal.fault = NoFault

\* C13: with skip_hidden the traversal yields no file whose name begins with
\* a dot and no file below a directory whose name begins with a dot, and a
\* build records none of them; without skip_hidden every such file is
\* yielded.
C13_HiddenPruned ==
    Traversing =>
        /\ traversal.self.skip_hidden =>
              /\ \A i \in 1..Len(Yielded) : Yielded[i].ok => ~HiddenPath(Yielded[i].path)
              /\ \A a \in HashAlgorithms :
                    LET built == build(Configuration(TRUE, {a}), fs, Root, traversal.fault)
                    IN  built.ok => \A p \in DOMAIN built.value.records : ~HiddenPath(p)
        /\ (~traversal.self.skip_hidden /\ TraversedAll) =>
              \A p \in DOMAIN fs :
                  (fs[p].exists /\ HiddenPath(p)) =>
                      \E i \in 1..Len(Yielded) : Yielded[i] = OkItem(p)

\* A finished traversal with skip_hidden of a tree with a hidden file, a
\* plain file in a hidden directory and a plain file it yielded.
C13_Witness ==
    /\ TraversedAll
    /\ traversal.self.skip_hidden
    /\ fs[<<NameDotH>>].exists
    /\ fs[<<NameDotG, NameC>>].exists
    /\ Len(Yielded) > 0

\* The files of a directory in depth-first order, by recursive descent: the
\* entries in the order the directory lists them, a subdirectory standing for
\* the files of its subtree, a filtered entry for nothing.
RECURSIVE DepthFirstFrom(_, _, _, _)
DepthFirstFrom(f, dir, skip_hidden, i) ==
    IF i > Len(NameOrder) THEN <<>>
    ELSE LET p == dir \o <<NameOrder[i]>>
             here == IF skip_hidden /\ NameOrder[i][1] = "." THEN <<>>
                     ELSE IF p \in SubDirs THEN DepthFirstFrom(f, p, skip_hidden, 1)
                     ELSE IF p \in DOMAIN f /\ f[p].exists THEN <<p>>
                     ELSE <<>>
         IN  here \o DepthFirstFrom(f, dir, skip_hidden, i + 1)

DepthFirst(f, skip_hidden) == DepthFirstFrom(f, <<>>, skip_hidden, 1)

\* A path lies below a directory.
Below(p, dir) == Len(p) > Len(dir) /\ SubSeq(p, 1, Len(dir)) = dir

\* C14: on an error-free tree the traversal yields every non-filtered file
\* exactly once and no directory, in depth-first order: the files of the
\* subtree of a directory are yielded consecutively, where the directory
\* stands among the entries of its parent.
C14_DepthFirstOnce ==
    (Traversing /\ traversal.fault = NoFault) =>
        /\ \A i \in 1..Len(Yielded) : Yielded[i].ok /\ Yielded[i].path \notin Dirs
        /\ \A i, j \in 1..Len(Yielded) : Yielded[i] = Yielded[j] => i = j
        /\ YieldedPaths = SubSeq(DepthFirst(fs, traversal.self.skip_hidden), 1, Len(Yielded))
        /\ \A dir \in SubDirs : \A i, j, k \in 1..Len(Yielded) :
              (i < j /\ j < k /\ Below(YieldedPaths[i], dir) /\ Below(YieldedPaths[k], dir))
                  => Below(YieldedPaths[j], dir)
        /\ traversal.ended =>
              { YieldedPaths[i] : i \in 1..Len(Yielded) }
                  = Covered(fs, traversal.self.skip_hidden)

\* A finished traversal that yielded the file of the nested directory
\* between two files of its parent, and then the files of later directories.
C14_Witness ==
    /\ TraversedAll
    /\ ~traversal.self.skip_hidden
    /\ YieldedPaths = << <<NameD, NameB>>, <<NameD, NameE, NameC>>, <<NameD, NameF>>,
                         <<NameDotG, NameC>>, <<NameDotH>> >>

\* C15: once the traversal has yielded an error item, no later request
\* yields a file item.
C15_FailurePermanent ==
    Traversing =>
        \A i, j \in 1..Len(Yielded) : (i < j /\ ~Yielded[i].ok) => ~Yielded[j].ok

\* The (algorithm, value) pairs of the reference digests of a byte sequence,
\* in the order of the algorithms.
ReferencePairs(algorithms, data) ==
    LET ordered == BTreeSet_iter(algorithms)
    IN  [i \in 1..Len(ordered) |-> <<ordered[i], Reference(ordered[i], data)>>]

\* The last compute of the hasher in use returned hashes.
Computed == hashing.stage = "ready" /\ hashing.calls > 0 /\ hashing.result.ok

\* C16: a hasher is reusable: in a sequence of successful compute calls on
\* one instance every call returns the reference digests of the bytes of its
\* own stream, whatever was hashed before and however the reads split the
\* stream, and leaves every digest reset.
C16_HasherReusable ==
    (Computed /\ hashing.clean) =>
        /\ hashing.result.value = ReferencePairs(hashing.algorithms, hashing.stream)
        /\ hashing.self = Hasher_new(BTreeSet_iter(hashing.algorithms))

\* The last of MaxCalls successful computes in a row, with both algorithms,
\* of a stream of the largest length read in a full and a short chunk, after
\* a stream that was not empty.
C16_Witness ==
    /\ Computed /\ hashing.clean
    /\ hashing.calls = MaxCalls
    /\ hashing.algorithms = HashAlgorithms
    /\ Len(hashing.stream) = MaxStream
    /\ hashing.short = CHUNK_SIZE
    /\ hashing.prev.len > 0

\* C17: a compute that failed after chunks were fed leaves nothing behind:
\* the next successful compute on the same hasher returns the reference
\* digests of its own stream.
C17_FailedComputeLeavesNothing ==
    (Computed /\ ~hashing.prev.ok /\ hashing.prev.fed) =>
        hashing.result.value = ReferencePairs(hashing.algorithms, hashing.stream)

\* The hex digits in the order of their values, as character codes: lower
\* case and upper case.
LowerHex == <<48, 49, 50, 51, 52, 53, 54, 55, 56, 57, 97, 98, 99, 100, 101, 102>>
UpperHex == <<48, 49, 50, 51, 52, 53, 54, 55, 56, 57, 65, 66, 67, 68, 69, 70>>
IsHexDigit(c) == \E v \in 1..16 : c = LowerHex[v] \/ c = UpperHex[v]
HexValue(c) == (CHOOSE v \in 1..16 : c = LowerHex[v] \/ c = UpperHex[v]) - 1

\* C18: hex round trip: the string encode returns for a byte sequence has
\* two lower-case hex characters per byte, the high nibble first, and decode
\* returns the byte sequence for it.
C18_HexRoundTrip ==
    /\ codec.stage \in {"encoded", "decoded"} =>
          /\ Len(codec.string) = 2 * Len(codec.bytes)
          /\ \A i \in 1..Len(codec.bytes) :
                /\ codec.string[2 * i - 1] = LowerHex[(codec.bytes[i] \div 16) + 1]
                /\ codec.string[2 * i] = LowerHex[(codec.bytes[i] % 16) + 1]
    /\ codec.stage = "decoded" => codec.result = Some(codec.bytes)

\* The round trip of two bytes whose nibbles are on both sides of the step
\* from digits to letters.
C18_Witness ==
    /\ codec.stage = "decoded"
    /\ codec.bytes = <<9 * 16 + 10, 15 * 16 + 0>>
    /\ codec.result = Some(codec.bytes)

\* C19: decode returns nothing for a string of odd length and for a string
\* with a character that is no hex digit, wherever it stands; for a string
\* of even length made of hex digits it returns the bytes, upper and lower
\* case standing for the same values.
C19_DecodeStrict ==
    codec.stage = "parsed" =>
        IF \/ Len(codec.chars) % 2 = 1
           \/ Len(codec.string) % 2 = 1
           \/ \E i \in 1..Len(codec.string) : ~IsHexDigit(codec.string[i])
        THEN codec.result = None
        ELSE codec.result =
                 Some([i \in 1..(Len(codec.string) \div 2) |->
                          16 * HexValue(codec.string[2 * i - 1]) + HexValue(codec.string[2 * i])])

\* A string whose first pair is valid, in upper case, and whose last
\* character is no hex digit, for which nothing is returned.
C19_Witness ==
    /\ codec.stage = "parsed"
    /\ codec.string = <<70, 48, 57, 103>>
    /\ codec.result = None

\* C20: in an inventory returned by build and changed by successful updates
\* the hash map of every record has exactly the algorithms of the
\* configuration as its keys, and every record is kept under the
\* root-relative path of its file, so that no file has two.
C20_RecordKeysAreAlgorithms ==
    inventory # NoInventory =>
        /\ \A p \in DOMAIN inventory.records :
              DOMAIN inventory.records[p].hashes = inventory.configuration.hash_algorithms
        /\ DOMAIN inventory.records \subseteq FilePaths

\* A successful update, of an inventory with both algorithms, that removed
\* a record, after an update that had added the record of a file written
\* after the build.
C20_Witness ==
    /\ UpdatedOk(TRUE)
    /\ inventory.configuration.hash_algorithms = HashAlgorithms
    /\ DOMAIN before.records \ DOMAIN inventory.records # {}
    /\ \E p \in DOMAIN before.records :
          /\ fs[p].exists
          /\ fs[p].data # InitialData
          /\ before.records[p] = RecordOf(fs, p, HashAlgorithms)


\* C21: in a report returned by check each path stands under at most one
\* failure kind: no path is under both SizeMismatch and HashMismatch, and no
\* path under MissingFromRepository or MissingFromInventory is under any
\* other kind.
C21_OneKindPerPath ==
    CheckedAny =>
        \A k1, k2 \in FailureKind :
            k1 # k2 => ByFailure(report, k1) \cap ByFailure(report, k2) = {}

\* A full check whose report holds a file of another size and a file with
\* other bytes of the recorded size, each under its own kind, beside a
\* tracked file that is not reported.
C21_Witness ==
    /\ Checked(TRUE)
    /\ DOMAIN report.contents = {SizeMismatch, HashMismatch}
    /\ \E p, q \in OnBothSides :
          /\ p # q
          /\ report.contents = (SizeMismatch :> {p}) @@ (HashMismatch :> {q})
    /\ Cardinality(OnBothSides) = 3

\* The program has run and exited; the last thing that happened is the run
\* of the named command.
Exited == process.stage = "exited"
Ran(name) == Exited /\ process.name = name /\ last.op = name

\* C22: the exit code is 0 when the command succeeded and 1 otherwise: 1
\* when the engine returned an error and when a verification returned a
\* report that is not empty; verify exits with 0 exactly if check returned a
\* report and the report is empty, and build and update exit with 0 only
\* with the inventory they hold written to the inventory file.
C22_ExitCode ==
    Exited =>
        /\ process.exit_code \in {0, 1}
        /\ process.engine = "err" => process.exit_code = 1
        /\ Ran("verify") =>
              (process.exit_code = 0 <=> (process.engine = "ok" /\ Report_is_empty(report)))
        /\ (Ran("build") \/ Ran("update")) =>
              /\ process.exit_code = 0 <=> last.ok
              /\ process.exit_code = 0 =>
                    /\ process.engine = "ok"
                    /\ inventory_file = Document(to_json(inventory))

\* A verification of a drifted repository: check returned a report, the
\* report is not empty and the exit code is 1.
C22_Witness ==
    /\ Ran("verify")
    /\ process.engine = "ok"
    /\ changes > 0
    /\ ~Report_is_empty(report)
    /\ process.exit_code = 1

\* C26: the inventory file is written only after the engine call has
\* succeeded: a build or update command whose engine call returned an error
\* leaves the file exactly as the run found it, and verify never writes it.
C26_PersistAfterSuccess ==
    Exited =>
        /\ process.engine = "err" => inventory_file = process.found
        /\ process.name = "verify" => inventory_file = process.found
        /\ inventory_file # process.found =>
              (process.name \in {"build", "update"} /\ process.engine = "ok")

\* An update command whose engine call failed on a repository with a new
\* file, the inventory file holding a document with records before and
\* after the run.
C26_Witness ==
    /\ Ran("update")
    /\ process.engine = "err"
    /\ process.exit_code = 1
    /\ changes > 0
    /\ process.found.exists /\ process.found.json.valid
    /\ DOMAIN process.found.json.records # {}
    /\ inventory_file = process.found

\* The failing call of the traversal in use is made: it is on a directory
\* the traversal opens, which every directory is that is not filtered.
FaultBites ==
    /\ traversal.fault # NoFault
    /\ traversal.self.skip_hidden => ~HiddenPath(traversal.fault.path)

\* An item the traversal yielded is an error item.
YieldedError == \E i \in 1..Len(Yielded) : ~Yielded[i].ok

\* C23: a failure to open a subdirectory or to read a directory entry is
\* yielded by the traversal as an error item and never dropped, and build,
\* check and update on that repository return an error and no inventory, no
\* report and no updated inventory made of the files that could be listed.
C23_ErrorsYieldedAndFatal ==
    Traversing =>
        /\ (traversal.ended /\ FaultBites) =>
              Cardinality({ i \in 1..Len(Yielded) : ~Yielded[i].ok }) = 1
        /\ YieldedError => FaultBites
        /\ YieldedError =>
              LET configuration == Configuration(traversal.self.skip_hidden, {Md5})
                  empty == Inventory_new(configuration)
              IN  /\ ~build(configuration, fs, Root, traversal.fault).ok
                  /\ ~check(empty, fs, Root, TRUE, traversal.fault).ok
                  /\ \A r \in update(empty, fs, Root, TRUE, traversal.fault) :
                        ~r.result.ok /\ r.self = empty

\* A traversal that came to its end after the nested directory could not be
\* opened: it yielded a file, then the error item, then the files listed
\* after that directory.
C23_Witness ==
    /\ Traversing /\ traversal.ended
    /\ traversal.fault = [kind |-> "read_dir", path |-> <<NameD, NameE>>]
    /\ Len(Yielded) >= 3
    /\ Yielded[1] = OkItem(<<NameD, NameB>>)
    /\ Yielded[2] = ErrItem
    /\ Yielded[3] = OkItem(<<NameD, NameF>>)

C25_TraversalTerminates ==
    Traversing ~> (Traversing /\ traversal.ended /\ traversal.self.stack = <<>>)

\* A traversal at its end, the stack empty, after it went through the root,
\* a directory and the directory nested in it, and yielded their files.
C25_Witness ==
    /\ TraversedAll
    /\ traversal.self.stack = <<>>
    /\ \E i, j \in 1..Len(Yielded) :
          /\ i < j
          /\ YieldedPaths[i] = <<NameD, NameE, NameC>>
          /\ YieldedPaths[j] = <<NameD, NameF>>

\* C27: update is idempotent on a repository that does not change: an
\* update that follows a successful update with the same remove_missing, on
\* the same tree, succeeds and adds no record, removes no record and
\* changes no record.
C27_UpdateIdempotent ==
    [][ ( /\ Updated /\ last.ok
          /\ last'.op = "update"
          /\ last'.flag = last.flag
          /\ fs' = fs )
            => (last'.ok /\ inventory' = inventory) ]_vars

\* An update that changed nothing, after the updates before it, all without
\* remove_missing, had added the record of a file written after the build
\* and kept the record of a deleted file.
C27_Witness ==
    /\ UpdatedOk(FALSE)
    /\ inventory = before
    /\ \E p \in DOMAIN inventory.records :
          /\ fs[p].exists
          /\ fs[p].data # InitialData
          /\ inventory.records[p] = RecordOf(fs, p, inventory.configuration.hash_algorithms)
    /\ \E q \in DOMAIN inventory.records : ~fs[q].exists

\* The paths a report holds under either mismatch kind.
Mismatched(rep) == ByFailure(rep, SizeMismatch) \cup ByFailure(rep, HashMismatch)

\* C28: a check that follows a successful update on the same tree reports
\* no path as MissingFromInventory; after an update with remove_missing it
\* reports no path as MissingFromRepository either, and reports a size or
\* hash mismatch only for paths that had a record before the update.
C28_CheckAfterUpdate ==
    [][ ( /\ Updated /\ last.ok
          /\ last'.op = "check" /\ last'.ok
          /\ fs' = fs )
            => /\ ByFailure(report', MissingFromInventory) = {}
               /\ last.flag =>
                     /\ ByFailure(report', MissingFromRepository) = {}
                     /\ Mismatched(report') \subseteq DOMAIN before.records ]_vars

\* A full check, after an update, whose report holds a file with other
\* bytes that was tracked before, and nothing else, beside a file written
\* after the build whose record an update has added.
C28_Witness ==
    /\ Checked(TRUE)
    /\ DOMAIN inventory.records = Traversed
    /\ \E p, q \in DOMAIN inventory.records :
          /\ p # q
          /\ report.contents = (HashMismatch :> {p})
          /\ fs[q].data # InitialData
          /\ inventory.records[q] = RecordOf(fs, q, inventory.configuration.hash_algorithms)

\* C29: the stack of open directory streams is not empty at the entry to
\* every request made on the traversal, a request made after the end of
\* the sequence included, and such a request returns the end of the
\* sequence again.
C29_StackNotEmptyAtEntry ==
    /\ (Traversing /\ ~traversal.ended) => Len(traversal.self.stack) > 0
    /\ traversal.stage = "after_end" =>
          (traversal.asserted /\ traversal.outcome = "none")
=============================================================================
